---- MODULE Spec2Model ----
(***************************************************************************)
(* Model of the chatbot-rag-app backend: the chunker                       *)
(* (backend/chunker/chunker.py), the ranked retrieval query                *)
(* (backend/retrieve/retrieve.py), the generative answer call              *)
(* (backend/services/llm.py), the /answer and /ingest handlers             *)
(* (backend/app/app.py), the store's write functions (backend/db/db.py)    *)
(* and the command-line ingest (backend/ingest/ingest.py).                 *)
(*                                                                         *)
(* A Python str is modelled as a sequence of one-character strings, a      *)
(* Python list as a sequence.  A value that may be either (the return of   *)
(* text_to_chunks) is a record [kind |-> "str" | "list", val |-> ...].     *)
(***************************************************************************)
EXTENDS Integers, Sequences, FiniteSets, Bags, TLC

VARIABLES
    \* ---- chunker.py: one call of text_to_chunks / page_to_chunks
    c_pc,        \* "idle" | "loop" | "done"
    page_text,   \* argument of page_to_chunks (<<>> when text_to_chunks is called directly)
    text,        \* local `text` of text_to_chunks (after line 39)
    max_chars,   \* parameter
    overlap,     \* parameter
    text_size,   \* local
    start,       \* local
    end,         \* local
    chunks,      \* local list
    windows,     \* history: the <<start, end>> of every window taken by the loop
    c_ret,       \* the returned value, NoRet until the call returns
    \* ---- the store as the retrieval query sees it, and one run_search call
    tbl,         \* bag of rows of `chunks c JOIN documents d`, each with its score
                 \* (1 - (c.embedding <=> q.v)) for the query vector at hand
    s_pc,        \* "build" | "searched"
    s_req,       \* the arguments of run_search
    s_rows,      \* the rows run_search returned
    \* ---- app.py: one /answer request
    a_pc,        \* "idle" | "embed" | "retrieve" | "generate" | "select" | "respond" | "done"
    a_req,       \* the AnswerRequest
    llm_env,     \* "configured" | "missing": the AZURE_OPENAI_* environment
    rows,        \* local `rows`
    answer_obj,  \* local `answer_obj`, NoObj before llm_answer returned
    candidates,  \* the sorted candidate list the selection loop iterates
    cand_i,      \* how many candidates the loop has taken
    selected,    \* local `selected`
    seen,        \* local `seen`
    llm_calls,   \* history: calls of llm_answer
    extractive,  \* history: the extractive path was entered
    a_resp,      \* the HTTP response, NoResp until the request ends
    \* ---- db.py: the store; app.py /ingest and ingest.py: the ingests
    db_documents,\* the committed rows of `documents`
    db_chunks,   \* the committed rows of `chunks`
    next_id,     \* the id the next new document row takes
    tx,          \* per connection: the pending writes of its open transaction
    ing,         \* per handler: its position and its locals
    n_reqs,      \* history: requests begun
    commits      \* history: the committed ingests, in commit order

chunkVars == <<c_pc, page_text, text, max_chars, overlap, text_size, start, end,
               chunks, windows, c_ret>>

searchVars == <<tbl, s_pc, s_req, s_rows>>

answerVars == <<a_pc, a_req, llm_env, rows, answer_obj, candidates, cand_i, selected,
                seen, llm_calls, extractive, a_resp>>

ingestVars == <<db_documents, db_chunks, next_id, tx, ing, n_reqs, commits>>

vars == <<chunkVars, searchVars, answerVars, ingestVars>>

----------------------------------------------------------------------------
(* Bounds                                                                  *)

\* longest text passed to text_to_chunks with explicit parameters
MaxLen == 4
\* largest max_chars / overlap tried with explicit parameters
MaxParam == 3
\* longest raw page text passed to page_to_chunks
MaxPageLen == 3
\* iterations of the chunking loop that are explored (the loop may not end)
MaxIter == 6
\* length of the long example text chunked with the default parameters
ExampleLen == 1000
\* rows in the store
MaxRows == 3
\* largest top_k requested
MaxTopK == 2
\* rows in the store when /answer is asked
MaxAnswerRows == 2
\* ingest requests begun
MaxRequests == 2

----------------------------------------------------------------------------
(* Generic helpers                                                         *)

Min2(a, b) == IF a <= b THEN a ELSE b
Max2(a, b) == IF a >= b THEN a ELSE b
SetMin(S) == CHOOSE x \in S : \A y \in S : x <= y
SetMax(S) == CHOOSE x \in S : \A y \in S : x >= y

\* Python slice s[a:b] for 0 <= a, 0 <= b
Slice(s, a, b) == SubSeq(s, a + 1, Min2(b, Len(s)))

\* all sequences over S of length at most n
SeqsUpTo(S, n) == UNION {[1..k -> S] : k \in 0..n}

NUL == "NUL"
\* the characters str.strip() removes (of those the model uses)
Whitespace == {" ", "\t", "\n", "\r"}

\* str.strip()
strip(s) ==
    LET keep == {i \in 1..Len(s) : s[i] \notin Whitespace}
    IN  IF keep = {} THEN <<>> ELSE SubSeq(s, SetMin(keep), SetMax(keep))

----------------------------------------------------------------------------
(* chunker.py: clean_text                                                  *)

\* concatenation of the sequences E[lo], ..., E[hi]
RECURSIVE Flatten(_, _, _)
Flatten(E, lo, hi) ==
    IF lo > hi THEN <<>>
    ELSE IF lo = hi THEN E[lo]
    ELSE LET mid == (lo + hi) \div 2
         IN  Flatten(E, lo, mid) \o Flatten(E, mid + 1, hi)

\* line 18: text.replace("\x00", " ")
ReplaceNul(s) == [i \in 1..Len(s) |-> IF s[i] = NUL THEN " " ELSE s[i]]

\* line 19: re.sub(r"[ \t]+", " ", text): every run of blanks becomes one space
CollapseBlanks(s) ==
    LET blank(i) == s[i] \in {" ", "\t"}
        E == [i \in 1..Len(s) |->
                IF blank(i)
                THEN IF i > 1 /\ blank(i - 1) THEN <<>> ELSE <<" ">>
                ELSE <<s[i]>>]
    IN  Flatten(E, 1, Len(s))

\* line 20: re.sub(r"\r\n?", "\n", text): CR LF and a lone CR become LF
UnixNewlines(s) ==
    LET E == [i \in 1..Len(s) |->
                IF s[i] = "\r" THEN <<"\n">>
                ELSE IF s[i] = "\n" /\ i > 1 /\ s[i - 1] = "\r" THEN <<>>
                ELSE <<s[i]>>]
    IN  Flatten(E, 1, Len(s))

\* line 21: re.sub(r"\n{3,}", "\n\n", text): a run of LF keeps its first two
LimitNewlines(s) ==
    LET E == [i \in 1..Len(s) |->
                IF s[i] = "\n" /\ i > 2 /\ s[i - 1] = "\n" /\ s[i - 2] = "\n"
                THEN <<>> ELSE <<s[i]>>]
    IN  Flatten(E, 1, Len(s))

\* lines 18-23
clean_text(t) == strip(LimitNewlines(UnixNewlines(CollapseBlanks(ReplaceNul(t)))))

----------------------------------------------------------------------------
(* chunker.py: text_to_chunks, page_to_chunks                              *)

DefaultMaxChars == 900
DefaultOverlap == 150

NoRet == [kind |-> "none", val |-> <<>>]

\* the characters of texts chunked with explicit parameters
TextAlphabet == {"a", "b", " "}
\* the characters of raw page texts
PageAlphabet == {"a", " ", "\t", "\n", "\r", NUL}

\* a text of n characters without whitespace
LongText(n) == [i \in 1..n |-> IF i % 2 = 0 THEN "a" ELSE "b"]

\* lines 39-49: strip, the two early returns, the loop's initialisation
Enter(t, m, o) ==
    LET stripped == strip(t) IN
    /\ text' = stripped
    /\ text_size' = Len(stripped)
    /\ max_chars' = m
    /\ overlap' = o
    /\ start' = 0
    /\ end' = 0
    /\ chunks' = <<>>
    /\ windows' = <<>>
    /\ IF stripped = <<>>
       THEN c_pc' = "done" /\ c_ret' = [kind |-> "list", val |-> <<>>]
       ELSE IF Len(stripped) <= m
            THEN c_pc' = "done" /\ c_ret' = [kind |-> "str", val |-> stripped]
            ELSE c_pc' = "loop" /\ c_ret' = NoRet

\* a direct call text_to_chunks(t, m, o)
TextToChunksCall ==
    /\ c_pc = "idle"
    /\ \E t \in SeqsUpTo(TextAlphabet, MaxLen), m \in 1..MaxParam, o \in 0..MaxParam :
          Enter(t, m, o)
    /\ page_text' = <<>>
    /\ UNCHANGED <<searchVars, answerVars, ingestVars>>

\* text_to_chunks(t) with the default parameters on a long text
TextToChunksDefaultCall ==
    /\ c_pc = "idle"
    /\ \E n \in {DefaultMaxChars, DefaultMaxChars + 1, ExampleLen} :
          Enter(LongText(n), DefaultMaxChars, DefaultOverlap)
    /\ page_text' = <<>>
    /\ UNCHANGED <<searchVars, answerVars, ingestVars>>

\* lines 61-73: page_to_chunks(p) = text_to_chunks(clean_text(p))
PageToChunksCall ==
    /\ c_pc = "idle"
    /\ \E p \in SeqsUpTo(PageAlphabet, MaxPageLen) :
          /\ page_text' = p
          /\ Enter(clean_text(p), DefaultMaxChars, DefaultOverlap)
    /\ UNCHANGED <<searchVars, answerVars, ingestVars>>

\* line 51
WindowEnd_Wide(s, m, n) == Min2(n, s + m + 1)
WindowEnd(s, m, n) == Min2(n, s + m)

\* line 56
NextStart_Skip(e, o) == Max2(0, e - o + 1)
NextStart_Back(e, o) == Max2(0, e - o - 1)
NextStart(e, o) == Max2(0, e - o)

\* lines 50-58: one evaluation of the while condition and, when it holds, one
\* iteration of the body
LoopIter ==
    /\ c_pc = "loop"
    /\ Len(chunks) < MaxIter
    /\ IF start < text_size
       THEN LET e == WindowEnd(start, max_chars, text_size)
                chunk == strip(Slice(text, start, e))
            IN  /\ end' = e
                /\ chunks' = Append(chunks, chunk)
                /\ windows' = Append(windows, <<start, e>>)
                /\ IF e >= text_size
                   THEN /\ c_pc' = "done"
                        /\ c_ret' = [kind |-> "list", val |-> Append(chunks, chunk)]
                        /\ start' = start
                   ELSE /\ c_pc' = "loop"
                        /\ c_ret' = c_ret
                        /\ start' = NextStart(e, overlap)
       ELSE /\ c_pc' = "done"
            /\ c_ret' = [kind |-> "list", val |-> chunks]
            /\ UNCHANGED <<start, end, chunks, windows>>
    /\ UNCHANGED <<page_text, text, max_chars, overlap, text_size>>
    /\ UNCHANGED <<searchVars, answerVars, ingestVars>>

\* what `for ch in <value>` yields: the elements of a list, the one-character
\* strings of a str (app.py line 177, ingest.py line 77)
Iterate(r) ==
    IF r.kind = "str" THEN [i \in 1..Len(r.val) |-> <<r.val[i]>>] ELSE r.val

ChunkIdle ==
    /\ c_pc = "idle"
    /\ page_text = <<>>
    /\ text = <<>>
    /\ max_chars = DefaultMaxChars
    /\ overlap = DefaultOverlap
    /\ text_size = 0
    /\ start = 0
    /\ end = 0
    /\ chunks = <<>>
    /\ windows = <<>>
    /\ c_ret = NoRet

ChunkNext ==
    \/ TextToChunksCall
    \/ TextToChunksDefaultCall
    \/ PageToChunksCall
    \/ LoopIter

----------------------------------------------------------------------------
(* retrieve.py: run_search                                                 *)

\* document_id = None (or ""): no document filter (line 58)
NoDoc == "None"

\* similarity scores, in hundredths; a negative score is possible (spec 4.3)
Scores == {-10, 85, 91, 93}
\* min_score values requested, in hundredths
MinScores == {0, 90, 92}

\* (document_id, page_number, chunk_index) of the stored rows: each of the
\* last three differs from the first in one component
Keys == { <<"D", 3, 2>>, <<"E", 3, 2>>, <<"D", 1, 2>>, <<"D", 3, 1>> }

Row(k, txt, sc) ==
    [document_id |-> k[1], page_number |-> k[2], chunk_index |-> k[3],
     chunk_text |-> txt, score |-> sc]

SearchRows == {Row(k, <<"x">>, sc) : k \in Keys, sc \in Scores}

\* line 48: PARTITION BY d.id, c.chunk_index, c.page_number
PartitionKey(r) == <<r.document_id, r.chunk_index, r.page_number>>

\* line 49: ORDER BY score DESC inside a partition: the rows that can get rn = 1
PartitionTop_Lowest(B, k) ==
    {r \in BagToSet(B) : PartitionKey(r) = k /\
        \A q \in BagToSet(B) : PartitionKey(q) = k => q.score >= r.score}
PartitionTop(B, k) ==
    {r \in BagToSet(B) : PartitionKey(r) = k /\
        \A q \in BagToSet(B) : PartitionKey(q) = k => q.score <= r.score}

\* lines 47-50, 66: the possible sets of rows with rn = 1, one row per
\* partition; rows that tie for the first place are ordered arbitrarily
RankedFirst(B) ==
    LET parts == {PartitionKey(r) : r \in BagToSet(B)}
        picks == {f \in [parts -> BagToSet(B)] : \A k \in parts : f[k] \in PartitionTop(B, k)}
    IN  {{f[k] : k \in parts} : f \in picks}

\* lines 57-68: the WHERE clause on a row of `ranked` (rn = 1 is the argument W)
Where(r, document_id, min_score) ==
    /\ (document_id /= NoDoc => r.document_id = document_id)
    /\ ((min_score /= 0 /\ min_score > 0) => r.score >= min_score)

\* line 71: ORDER BY ranked.score DESC, in any order among equal scores
OrderByScoreDesc_Any(S) ==
    {p \in [1..Cardinality(S) -> S] : \A i, j \in 1..Cardinality(S) : i /= j => p[i] /= p[j]}
OrderByScoreDesc(S) ==
    {p \in [1..Cardinality(S) -> S] :
        /\ \A i, j \in 1..Cardinality(S) : i /= j => p[i] /= p[j]
        /\ \A i, j \in 1..Cardinality(S) : i < j => p[i].score >= p[j].score}

\* line 72: LIMIT top_k
Limit(p, top_k) == SubSeq(p, 1, Min2(top_k, Len(p)))

\* lines 31-88: every row list the query can return on the store B
run_search(B, document_id, min_score, top_k) ==
    UNION { {Limit(p, top_k) :
                p \in OrderByScoreDesc({r \in W : Where(r, document_id, min_score)})}
            : W \in RankedFirst(B) }

NoReq == [document_id |-> NoDoc, min_score |-> 0, top_k |-> 1]

\* a row is stored (an ingest, or a store-level anomaly leaving duplicates)
InsertRow(R, n) ==
    /\ s_pc = "build"
    /\ BagCardinality(tbl) < n
    /\ \E r \in R : tbl' = tbl (+) SetToBag({r})
    /\ UNCHANGED <<s_pc, s_req, s_rows>>

SearchInsert == InsertRow(SearchRows, MaxRows) /\ UNCHANGED <<chunkVars, answerVars, ingestVars>>

\* app.py lines 243-260: /search calls run_search on the store
Search ==
    /\ s_pc = "build"
    /\ \E d \in {NoDoc} \cup {k[1] : k \in Keys}, m \in MinScores, k \in 1..MaxTopK :
          /\ s_req' = [document_id |-> d, min_score |-> m, top_k |-> k]
          /\ \E res \in run_search(tbl, d, m, k) : s_rows' = res
    /\ s_pc' = "searched"
    /\ UNCHANGED tbl
    /\ UNCHANGED <<chunkVars, answerVars, ingestVars>>

SearchIdle ==
    /\ tbl = EmptyBag
    /\ s_pc = "build"
    /\ s_req = NoReq
    /\ s_rows = <<>>

SearchNext ==
    \/ SearchInsert
    \/ Search

----------------------------------------------------------------------------
(* app.py: _split_sentences and the helpers of the extractive path         *)

\* the elements of a finite set of integers in increasing order
SortAsc(S) ==
    [j \in 1..Cardinality(S) |-> CHOOSE x \in S : Cardinality({y \in S : y <= x}) = j]

\* str.split(): the maximal runs of non-whitespace characters
Words(s) ==
    LET first == SortAsc({i \in 1..Len(s) :
                    s[i] \notin Whitespace /\ (i = 1 \/ s[i - 1] \in Whitespace)})
        last(i) == SetMin({j \in i..Len(s) : j = Len(s) \/ s[j + 1] \in Whitespace})
    IN  [k \in 1..Len(first) |-> SubSeq(s, first[k], last(first[k]))]

\* sep.join(parts)
Join(sep, parts) ==
    Flatten([k \in 1..Len(parts) |-> IF k = 1 THEN parts[k] ELSE sep \o parts[k]],
            1, Len(parts))

\* line 90: re.split on (?<=[.!?])\s+ : the pieces between the whitespace runs
\* that follow a terminal punctuation mark
SentencePieces(t) ==
    IF t = <<>> THEN << <<>> >>
    ELSE LET cut == SortAsc({i \in 2..Len(t) :
                        t[i] \in Whitespace /\ t[i - 1] \in {".", "!", "?"}})
             runEnd(i) == SetMin({j \in i..Len(t) : j = Len(t) \/ t[j + 1] \notin Whitespace})
             from(k) == IF k = 1 THEN 1 ELSE runEnd(cut[k - 1]) + 1
             to(k) == IF k <= Len(cut) THEN cut[k] - 1 ELSE Len(t)
         IN  [k \in 1..(Len(cut) + 1) |-> SubSeq(t, from(k), to(k))]

\* line 92 default
SentenceMaxLen == 300

\* lines 92-98
split_sentences(txt, max_len) ==
    LET pieces == SentencePieces(strip(txt))
        E == [k \in 1..Len(pieces) |->
                LET s == Join(<<" ">>, Words(pieces[k]))
                IN  IF s = <<>> THEN <<>> ELSE << Slice(s, 0, max_len) >>]
    IN  Flatten(E, 1, Len(pieces))

\* str.lower() on the characters of the model
Lower(s) == [i \in 1..Len(s) |-> IF s[i] = "A" THEN "a" ELSE s[i]]

\* line 358: set(a.lower().split())
WordSet(a) == LET ws == Words(Lower(a)) IN {ws[k] : k \in 1..Len(ws)}

\* lines 357-362: j >= 0.75, as 4 * |wa & wb| >= 3 * |wa | wb|
too_similar_Above(a, b) ==
    LET wa == WordSet(a)
        wb == WordSet(b)
    IN  IF wa = {} \/ wb = {} THEN FALSE
        ELSE 4 * Cardinality(wa \cap wb) > 3 * Cardinality(wa \cup wb)
too_similar(a, b) ==
    LET wa == WordSet(a)
        wb == WordSet(b)
    IN  IF wa = {} \/ wb = {} THEN FALSE
        ELSE 4 * Cardinality(wa \cap wb) >= 3 * Cardinality(wa \cup wb)

\* line 353, in hundredths
PosBonus(idx) == IF idx = 0 THEN 100 ELSE IF idx = 1 THEN 85 ELSE 70

\* line 347
TopHits == 5
\* line 352
SentencesPerHit == 4
\* line 371
MaxSelected == 5
\* line 374
MaxBullets == 4
\* lines 375 and llm.py line 19
AnswerMaxLen == 700
\* line 380
MaxCitations == 6
\* line 47: AnswerRequest.preview_chars default
PreviewChars == 220

\* lines 347-355: the candidates (weight, s, r) in the order they are appended;
\* r is the position of the hit in `rows`
Candidates(rs) ==
    LET top == Slice(rs, 0, Min2(Len(rs), TopHits))
        E == [r \in 1..Len(top) |->
                LET sents == Slice(split_sentences(top[r].chunk_text, SentenceMaxLen),
                                   0, SentencesPerHit)
                IN  [idx \in 1..Len(sents) |->
                        [weight |-> top[r].score * PosBonus(idx - 1),
                         s |-> sents[idx], r |-> r]]]
    IN  Flatten(E, 1, Len(top))

\* line 366: sorted(candidates, key=weight, reverse=True); the sort is stable
SortedByWeight(cs) ==
    LET before(i, j) == cs[i].weight > cs[j].weight \/ (cs[i].weight = cs[j].weight /\ i < j)
    IN  [k \in 1..Len(cs) |->
            cs[CHOOSE i \in 1..Len(cs) :
                   Cardinality({j \in 1..Len(cs) : before(j, i)}) = k - 1]]

\* line 332: "\n\n".join of the non-empty chunk texts
Context(rs) ==
    Join(<<"\n", "\n">>,
         Flatten([i \in 1..Len(rs) |->
                     IF rs[i].chunk_text = <<>> THEN <<>> ELSE << rs[i].chunk_text >>],
                 1, Len(rs)))

\* lines 100-112
make_citations(rs, preview_chars) ==
    [i \in 1..Len(rs) |->
        [document_id |-> rs[i].document_id, page_number |-> rs[i].page_number,
         chunk_index |-> rs[i].chunk_index, score |-> rs[i].score,
         snippet |-> strip(Slice(rs[i].chunk_text, 0, preview_chars))]]

----------------------------------------------------------------------------
(* app.py: the /answer handler; llm.py: llm_answer                         *)

None == "None"
NoObj == [answer |-> <<>>, answer_bullets |-> <<>>, model_name |-> None]
NoResp == [status |-> 0, detail |-> "", answer |-> <<>>, answer_bullets |-> <<>>,
           citations |-> <<>>, llm |-> None]

Error(code, what) == [NoResp EXCEPT !.status = code, !.detail = what]

\* lines 320-326
NothingRelevant ==
    [NoResp EXCEPT !.status = 200, !.answer = <<"I couldn't find anything relevant.">>]

\* a word of n characters c
Run(c, n) == [i \in 1..n |-> c]

\* chunk texts in the store when /answer is asked
AnswerTexts ==
    << <<"a", ".", " ", "b", ".", " ", "c", ".", " ", "d", ".", " ", "e", ".">>,
       <<"f", " ", "g", " ", "h", ".", " ", " ", "z", " ", "f", " ", "g", " ", "h", ".",
         "\n", "A", ".", " ", "x">>,
       <<"a", " ", "b">>,
       <<>>,
       <<" ">>,
       Run("p", SentenceMaxLen + 1) \o <<".", " ">> \o Run("q", SentenceMaxLen + 1) \o <<".">>,
       Run("r", SentenceMaxLen + 1) \o <<".">> >>

AnswerScores == {80, 85}
AnswerMinScores == {0, 90}
\* line 44: AnswerRequest.top_k default
DefaultTopK == 8

AnswerRows == {Row(<<"D", 1, i - 1>>, AnswerTexts[i], sc) :
                  i \in 1..Len(AnswerTexts), sc \in AnswerScores}

AnswerInsert ==
    /\ a_pc = "idle"
    /\ InsertRow(AnswerRows, MaxAnswerRows)
    /\ UNCHANGED <<chunkVars, answerVars, ingestVars>>

\* lines 286-288: the request arrives; an empty query is refused
AnswerStart ==
    /\ a_pc = "idle"
    /\ \E blank \in BOOLEAN, m \in AnswerMinScores, env \in {"configured", "missing"} :
          /\ a_req' = [query_blank |-> blank, document_id |-> NoDoc, min_score |-> m,
                       top_k |-> DefaultTopK, preview_chars |-> PreviewChars]
          /\ llm_env' = env
          /\ IF blank
             THEN a_pc' = "done" /\ a_resp' = Error(400, "Query cannot be empty.")
             ELSE a_pc' = "embed" /\ a_resp' = a_resp
    /\ UNCHANGED <<rows, answer_obj, candidates, cand_i, selected, seen, llm_calls,
                   extractive>>
    /\ UNCHANGED <<chunkVars, searchVars, ingestVars>>

\* lines 291-296
AnswerEmbed ==
    /\ a_pc = "embed"
    /\ \/ a_pc' = "retrieve" /\ a_resp' = a_resp
       \/ a_pc' = "done" /\ a_resp' = Error(500, "Embedding error")
    /\ UNCHANGED <<a_req, llm_env, rows, answer_obj, candidates, cand_i, selected, seen,
                   llm_calls, extractive>>
    /\ UNCHANGED <<chunkVars, searchVars, ingestVars>>

\* line 319: `if not rows`
NoHits_Never(rs) == FALSE
NoHits(rs) == rs = <<>>

\* lines 299-326: retrieval, and the early return on zero hits
AnswerRetrieve ==
    /\ a_pc = "retrieve"
    /\ \/ \E res \in run_search(tbl, a_req.document_id, a_req.min_score, a_req.top_k) :
             /\ rows' = res
             /\ IF NoHits(res)
                THEN a_pc' = "done" /\ a_resp' = NothingRelevant
                ELSE a_pc' = "generate" /\ a_resp' = a_resp
       \/ /\ rows' = rows
          /\ a_pc' = "done"
          /\ a_resp' = Error(500, "Search error")
    /\ UNCHANGED <<a_req, llm_env, answer_obj, candidates, cand_i, selected, seen,
                   llm_calls, extractive>>
    /\ UNCHANGED <<chunkVars, searchVars, ingestVars>>

\* llm.py lines 17-20: the answer object returned when the environment is incomplete
MisconfiguredAnswer(context) ==
    [answer |-> Slice(context, 0, AnswerMaxLen), answer_bullets |-> <<>>, model_name |-> None]

\* llm.py lines 40-46: an answer object of the deployment
DeploymentAnswer ==
    [answer |-> <<"l", ".">>, answer_bullets |-> << <<"l", ".">> >>,
     model_name |-> "deployment"]

\* app.py lines 346-355 and 364-365: the extractive path is entered
EnterExtractive ==
    LET cs == SortedByWeight(Candidates(rows))
    IN  /\ extractive' = TRUE
        /\ candidates' = cs
        /\ a_pc' = IF cs = <<>> THEN "respond" ELSE "select"

\* app.py lines 329-346 with llm.py lines 6-46: the call of llm_answer; an
\* exception of the chat completion call is caught nowhere and ends the request
AnswerGenerate ==
    /\ a_pc = "generate"
    /\ llm_calls' = llm_calls + 1
    /\ \/ /\ llm_env = "missing"
          /\ answer_obj' = MisconfiguredAnswer(Context(rows))
          /\ EnterExtractive
          /\ a_resp' = a_resp
       \/ /\ llm_env = "configured"
          /\ answer_obj' = DeploymentAnswer
          /\ a_pc' = "respond"
          /\ UNCHANGED <<extractive, candidates, a_resp>>
       \/ /\ llm_env = "configured"
          /\ a_pc' = "done"
          /\ a_resp' = Error(500, "Internal Server Error")
          /\ UNCHANGED <<extractive, candidates, answer_obj>>
    /\ UNCHANGED <<a_req, llm_env, rows, cand_i, selected, seen>>
    /\ UNCHANGED <<chunkVars, searchVars, ingestVars>>

\* app.py lines 366-372: one iteration of the selection loop
AnswerSelect ==
    /\ a_pc = "select"
    /\ LET c == candidates[cand_i + 1]
           skip == \E k \in 1..Len(seen) : too_similar(c.s, seen[k])
           sel == IF skip THEN selected ELSE Append(selected, c)
       IN  /\ selected' = sel
           /\ seen' = IF skip THEN seen ELSE Append(seen, c.s)
           /\ cand_i' = cand_i + 1
           /\ a_pc' = IF (~skip /\ Len(sel) >= MaxSelected) \/ cand_i + 1 = Len(candidates)
                      THEN "respond" ELSE "select"
    /\ UNCHANGED <<a_req, llm_env, rows, answer_obj, candidates, llm_calls, extractive,
                   a_resp>>
    /\ UNCHANGED <<chunkVars, searchVars, ingestVars>>

\* app.py line 374
Bullets(sel) == Slice([k \in 1..Len(sel) |-> sel[k].s], 0, MaxBullets)

\* app.py line 375
ExtractiveText_LastHit(sel, rs) ==
    IF Bullets(sel) /= <<>>
    THEN Slice(Join(<<" ">>, Bullets(sel)), 0, AnswerMaxLen)
    ELSE Slice(rs[Len(rs)].chunk_text, 0, AnswerMaxLen)
ExtractiveText(sel, rs) ==
    IF Bullets(sel) /= <<>>
    THEN Slice(Join(<<" ">>, Bullets(sel)), 0, AnswerMaxLen)
    ELSE Slice(rs[1].chunk_text, 0, AnswerMaxLen)

\* app.py lines 341-343 and 374-392: the response
AnswerRespond ==
    /\ a_pc = "respond"
    /\ a_pc' = "done"
    /\ a_resp' =
          [status |-> 200, detail |-> "",
           answer |-> IF extractive THEN ExtractiveText(selected, rows)
                      ELSE answer_obj.answer,
           answer_bullets |-> IF extractive THEN Bullets(selected)
                              ELSE answer_obj.answer_bullets,
           citations |-> make_citations(Slice(rows, 0, MaxCitations), a_req.preview_chars),
           llm |-> answer_obj.model_name]
    /\ UNCHANGED <<a_req, llm_env, rows, answer_obj, candidates, cand_i, selected, seen,
                   llm_calls, extractive>>
    /\ UNCHANGED <<chunkVars, searchVars, ingestVars>>

AnswerIdle ==
    /\ a_pc = "idle"
    /\ a_req = [query_blank |-> FALSE, document_id |-> NoDoc, min_score |-> 0,
                top_k |-> DefaultTopK, preview_chars |-> PreviewChars]
    /\ llm_env = "missing"
    /\ rows = <<>>
    /\ answer_obj = NoObj
    /\ candidates = <<>>
    /\ cand_i = 0
    /\ selected = <<>>
    /\ seen = <<>>
    /\ llm_calls = 0
    /\ extractive = FALSE
    /\ a_resp = NoResp

AnswerNext ==
    \/ AnswerInsert
    \/ AnswerStart
    \/ AnswerEmbed
    \/ AnswerRetrieve
    \/ AnswerGenerate
    \/ AnswerSelect
    \/ AnswerRespond

----------------------------------------------------------------------------
(* chunker.py: the value of a whole call of page_to_chunks                 *)

\* lines 50-58: the chunks of the windows from offset s on (overlap < max_chars)
RECURSIVE WindowChunks(_, _, _, _)
WindowChunks(t, s, m, o) ==
    IF s >= Len(t) THEN <<>>
    ELSE LET e == WindowEnd(s, m, Len(t))
             chunk == strip(Slice(t, s, e))
         IN  IF e >= Len(t) THEN <<chunk>>
             ELSE <<chunk>> \o WindowChunks(t, NextStart(e, o), m, o)

\* lines 26-58
text_to_chunks(t, m, o) ==
    LET stripped == strip(t)
    IN  IF stripped = <<>> THEN [kind |-> "list", val |-> <<>>]
        ELSE IF Len(stripped) <= m THEN [kind |-> "str", val |-> stripped]
        ELSE [kind |-> "list", val |-> WindowChunks(stripped, 0, m, o)]

\* lines 61-73
page_to_chunks(p) == text_to_chunks(clean_text(p), DefaultMaxChars, DefaultOverlap)

----------------------------------------------------------------------------
(* db.py: the store.  A transaction's writes are pending until its commit; *)
(* the other connections see committed rows only (READ COMMITTED), and a   *)
(* statement that meets a row written by an open transaction waits for it. *)

\* a connection without an open transaction
NoTx == [ins_docs |-> {}, upd_docs |-> {}, del_chunks |-> {}, ins_chunks |-> {}]

\* the documents / chunks a connection sees: the committed rows and its own
\* pending writes
VisibleDocuments(D, t) ==
    {d \in D : \A u \in t.upd_docs : u.id /= d.id} \cup t.upd_docs \cup t.ins_docs

VisibleChunks(C, t) == (C \ t.del_chunks) \cup t.ins_chunks

\* db.py lines 46-48, ON CONFLICT(file_checksum): the rows the INSERT conflicts with
ExistingDocument_None(V, c) == {}
ExistingDocument(V, c) == {d \in V : d.file_checksum = c}

\* db.py lines 46-52: the statement waits while another open transaction has
\* inserted or updated (and so locked) a document with this checksum
UpsertBlocked_Never(T, p, c) == FALSE
UpsertBlocked(T, p, c) ==
    \E q \in DOMAIN T : q /= p /\ \E d \in T[q].ins_docs \cup T[q].upd_docs : d.file_checksum = c

\* db.py lines 32-57: the transaction after the statement, and the id returned;
\* a new row takes the id `fresh`
upsert_document(D, t, fresh, title, source_path, file_checksum) ==
    LET hit == ExistingDocument(VisibleDocuments(D, t), file_checksum)
    IN  IF hit /= {}
        THEN LET old == CHOOSE d \in hit : TRUE
                 new == [old EXCEPT !.title = title, !.source_path = source_path]
             IN  IF old \in t.ins_docs
                 THEN [tx |-> [t EXCEPT !.ins_docs = (@ \ {old}) \cup {new}],
                       id |-> old.id, created |-> FALSE]
                 ELSE [tx |-> [t EXCEPT !.upd_docs = (@ \ {old}) \cup {new}],
                       id |-> old.id, created |-> FALSE]
        ELSE [tx |-> [t EXCEPT !.ins_docs = @ \cup
                         {[id |-> fresh, title |-> title, source_path |-> source_path,
                           file_checksum |-> file_checksum]}],
              id |-> fresh, created |-> TRUE]

\* db.py lines 76-79: DELETE FROM chunks where document_id = %s
DeleteChunks_None(C, t, document_id) == t
DeleteChunks(C, t, document_id) ==
    [t EXCEPT !.del_chunks = @ \cup {c \in C : c.document_id = document_id},
              !.ins_chunks = {c \in @ : c.document_id /= document_id}]

\* db.py lines 76-79: the DELETE waits for a row another open transaction deleted
DeleteBlocked(C, T, p, document_id) ==
    \E q \in DOMAIN T : q /= p /\ \E c \in T[q].del_chunks : c.document_id = document_id

\* db.py lines 82-90: executemany inserts the first k rows
InsertChunks(t, rs, k) ==
    [t EXCEPT !.ins_chunks = @ \cup {rs[i] : i \in 1..k}]

\* conn.commit(): the pending writes become the committed rows
CommitDocuments(D, t) == VisibleDocuments(D, t)
CommitChunks(C, t) == VisibleChunks(C, t)

\* conn.rollback(), or conn.close() with a transaction open: the committed
\* documents and chunks afterwards
RollbackDocuments(D, t) == D
RollbackChunks_Kept(C, t) == VisibleChunks(C, t)
RollbackChunks(C, t) == C

----------------------------------------------------------------------------
(* app.py: the /ingest handler; ingest.py: the command-line ingest         *)

\* two requests at a time
Procs == {1, 2}

\* a local name that was never assigned, and one that holds the value v
Unbound == <<>>
Bound(v) == <<v>>
ValueOf(b) == b[1]

\* app.py line 175, ingest.py line 68: the shortest page that is kept
MinPageLen == 30

ShortPage == Run("a", MinPageLen - 1)
BlankPage == Run(" ", MinPageLen)
NulPage == Run(NUL, MinPageLen)
LongPage == LongText(DefaultMaxChars + 1)

Upload(c, pdf, empty, readable, pages) ==
    [file_checksum |-> c, content_type_ok |-> pdf, empty |-> empty, readable |-> readable,
     pages |-> pages]

\* the files offered: an empty one, one that is no PDF, one without a page (and
\* not sent as a PDF), one whose pages hold no text that is kept, two with text
Files ==
    { Upload("0", TRUE, TRUE, FALSE, <<>>),
      Upload("X", TRUE, FALSE, FALSE, <<>>),
      Upload("Z", FALSE, FALSE, TRUE, <<>>),
      Upload("N", TRUE, FALSE, TRUE, <<ShortPage, BlankPage, NulPage>>),
      Upload("A", TRUE, FALSE, TRUE, <<LongPage>>),
      Upload("B", TRUE, FALSE, TRUE, <<ShortPage, LongPage>>) }

\* the file with the given bytes (named by their checksum)
File(c) == CHOOSE f \in Files : f.file_checksum = c

\* the title given with request n
Title(n) == <<"title", n>>

\* app.py line 175, ingest.py line 68: the page is skipped
PageSkipped(pt) == strip(pt) = <<>> \/ Len(pt) < MinPageLen

\* app.py lines 168-184, ingest.py lines 67-93: the page number of every chunk,
\* in the order the chunks are appended
ChunkPages(pages) ==
    Flatten([n \in 1..Len(pages) |->
                IF PageSkipped(pages[n]) THEN <<>>
                ELSE [i \in 1..Len(Iterate(page_to_chunks(pages[n]))) |-> n]],
            1, Len(pages))

\* the same, for every file offered
FileChunkPages == [f \in Files |-> ChunkPages(f.pages)]

\* app.py lines 209-211: the rows of request n for the document
Rows(document_id, f, n) ==
    LET pg == FileChunkPages[f]
    IN  [idx \in 1..Len(pg) |->
            [document_id |-> document_id, page_number |-> pg[idx],
             chunk_index |-> idx - 1, req |-> n]]

NoRequest == [n |-> 0, entry |-> "http", file |-> "0", title |-> Title(0), overlaps |-> FALSE]

NoOutcome == [status |-> 0, detail |-> "", document_id |-> Unbound, chunks_inserted |-> 0]

Failure(code, what) == [NoOutcome EXCEPT !.status = code, !.detail = what]

\* the locals of a handler that has not been entered, and the history of its
\* request: the embedding calls and the write statements it made, the value
\* delete_and_insert_chunks returned, whether a statement of it had to wait, and
\* the committed store (and the number of commits) when it began
IdleHandler ==
    [pc |-> "idle", req |-> NoRequest, conn |-> FALSE, document_id |-> Unbound,
     rows |-> Unbound, resp |-> NoOutcome, embed_calls |-> 0, writes |-> 0,
     returned |-> Unbound, waited |-> FALSE,
     before |-> [documents |-> {}, chunks |-> {}, ncommits |-> 0]]

\* app.py line 205, ingest.py line 58: request n names its own file
SourcePath(r) == <<IF r.entry = "http" THEN "upload:" ELSE "/", r.n>>

\* app.py lines 146-187: the request arrives and is validated.
\* ingest.py lines 44-52: the command starts
IngestStart(p) ==
    /\ ing[p].pc = "idle"
    /\ n_reqs < MaxRequests
    /\ n_reqs' = n_reqs + 1
    /\ \E e \in {"http", "cli"}, f \in Files :
          LET r == [n |-> n_reqs + 1, entry |-> e, file |-> f.file_checksum,
                    title |-> Title(n_reqs + 1),
                    overlaps |-> \E q \in Procs \ {p} : ing[q].pc \notin {"idle", "done"}]
              h == [IdleHandler EXCEPT !.req = r,
                       !.before = [documents |-> db_documents, chunks |-> db_chunks,
                                   ncommits |-> Len(commits)]]
          IN  ing' = [ing EXCEPT ![p] =
                 IF e = "cli" THEN [h EXCEPT !.pc = "connect"]
                 ELSE IF ~f.content_type_ok
                 THEN [h EXCEPT !.pc = "done",
                                !.resp = Failure(400, "Only PDF uploads are supported.")]
                 ELSE IF f.empty
                 THEN [h EXCEPT !.pc = "done", !.resp = Failure(400, "Empty file.")]
                 ELSE IF ~f.readable
                 THEN [h EXCEPT !.pc = "done", !.resp = Failure(400, "PDF parse error")]
                 ELSE IF FileChunkPages[f] = <<>>
                 THEN [h EXCEPT !.pc = "done",
                                !.resp = Failure(400, "No readable text found in the PDF.")]
                 ELSE [h EXCEPT !.pc = "embed"]]
    /\ UNCHANGED <<db_documents, db_chunks, next_id, tx, commits>>
    /\ UNCHANGED <<chunkVars, searchVars, answerVars>>

\* app.py lines 190-194: embed_passage(texts)
IngestEmbed(p) ==
    /\ ing[p].pc = "embed"
    /\ \/ ing' = [ing EXCEPT ![p].pc = "connect", ![p].embed_calls = @ + 1]
       \/ ing' = [ing EXCEPT ![p].pc = "done", ![p].embed_calls = @ + 1,
                             ![p].resp = Failure(500, "Embedding error")]
    /\ UNCHANGED <<db_documents, db_chunks, next_id, tx, commits, n_reqs>>
    /\ UNCHANGED <<chunkVars, searchVars, answerVars>>

\* app.py lines 197-201: get_conn() inside the try; when it raises, conn is
\* still None.  ingest.py line 55: get_conn() is outside the try
IngestConnect(p) ==
    /\ ing[p].pc = "connect"
    /\ \/ ing' = [ing EXCEPT ![p].pc = "upsert", ![p].conn = TRUE]
       \/ ing' = [ing EXCEPT ![p].pc = IF ing[p].req.entry = "http" THEN "except" ELSE "done",
                             ![p].resp = IF ing[p].req.entry = "http" THEN @
                                         ELSE Failure(1, "OperationalError")]
    /\ UNCHANGED <<db_documents, db_chunks, next_id, tx, commits, n_reqs>>
    /\ UNCHANGED <<chunkVars, searchVars, answerVars>>

\* db.py line 55: the statement has met a document that an open transaction
\* wrote, and waits for that transaction to end
IngestUpsertWait(p) ==
    /\ ing[p].pc = "upsert"
    /\ ~ing[p].waited
    /\ UpsertBlocked(tx, p, ing[p].req.file)
    /\ ing' = [ing EXCEPT ![p].waited = TRUE]
    /\ UNCHANGED <<db_documents, db_chunks, next_id, tx, commits, n_reqs>>
    /\ UNCHANGED <<chunkVars, searchVars, answerVars>>

\* app.py lines 202-211, ingest.py line 58: upsert_document, and (app.py) the rows
IngestUpsert(p) ==
    /\ ing[p].pc = "upsert"
    /\ LET r == ing[p].req IN
       \/ /\ ~UpsertBlocked(tx, p, r.file)
          /\ LET u == upsert_document(db_documents, tx[p], next_id, r.title, SourcePath(r),
                                      r.file)
             IN  /\ tx' = [tx EXCEPT ![p] = u.tx]
                 /\ next_id' = IF u.created THEN next_id + 1 ELSE next_id
                 /\ ing' = [ing EXCEPT
                       ![p].document_id = Bound(u.id),
                       ![p].writes = @ + 1,
                       ![p].rows = IF r.entry = "http" THEN Bound(Rows(u.id, File(r.file), r.n)) ELSE @,
                       ![p].pc = IF r.entry = "http" THEN "delete" ELSE "pages"]
       \/ /\ ing' = [ing EXCEPT ![p].pc = "except"]
          /\ UNCHANGED <<tx, next_id>>
    /\ UNCHANGED <<db_documents, db_chunks, commits, n_reqs>>
    /\ UNCHANGED <<chunkVars, searchVars, answerVars>>

\* ingest.py lines 60-93: the pages are read, filtered, chunked and embedded;
\* embed_passage returns lists, so emb.tolist() (line 89) raises for the first
\* chunk there is
IngestPages(p) ==
    /\ ing[p].pc = "pages"
    /\ LET f == File(ing[p].req.file) IN
       IF ~f.readable \/ f.pages = <<>>
       THEN ing' = [ing EXCEPT ![p].pc = "except"]
       ELSE IF FileChunkPages[f] /= <<>>
       THEN ing' = [ing EXCEPT ![p].pc = "except", ![p].embed_calls = @ + 1]
       ELSE ing' = [ing EXCEPT ![p].pc = "delete", ![p].rows = Bound(<<>>)]
    /\ UNCHANGED <<db_documents, db_chunks, next_id, tx, commits, n_reqs>>
    /\ UNCHANGED <<chunkVars, searchVars, answerVars>>

\* db.py lines 74-79: the DELETE of delete_and_insert_chunks
IngestDelete(p) ==
    /\ ing[p].pc = "delete"
    /\ \/ /\ ~DeleteBlocked(db_chunks, tx, p, ValueOf(ing[p].document_id))
          /\ tx' = [tx EXCEPT ![p] = DeleteChunks(db_chunks, @, ValueOf(ing[p].document_id))]
          /\ ing' = [ing EXCEPT ![p].pc = "insert", ![p].writes = @ + 1]
       \/ /\ ing' = [ing EXCEPT ![p].pc = "except"]
          /\ UNCHANGED tx
    /\ UNCHANGED <<db_documents, db_chunks, next_id, commits, n_reqs>>
    /\ UNCHANGED <<chunkVars, searchVars, answerVars>>

\* db.py lines 82-92: the INSERTs of delete_and_insert_chunks; executemany may
\* fail at any row
IngestInsert(p) ==
    /\ ing[p].pc = "insert"
    /\ LET rs == ValueOf(ing[p].rows) IN
       \/ /\ tx' = [tx EXCEPT ![p] = InsertChunks(@, rs, Len(rs))]
          /\ ing' = [ing EXCEPT ![p].pc = "commit",
                                ![p].writes = @ + Len(rs),
                                ![p].returned = Bound(Len(rs))]
       \/ \E k \in 0..(Len(rs) - 1) :
             /\ tx' = [tx EXCEPT ![p] = InsertChunks(@, rs, k)]
             /\ ing' = [ing EXCEPT ![p].pc = "except", ![p].writes = @ + k]
    /\ UNCHANGED <<db_documents, db_chunks, next_id, commits, n_reqs>>
    /\ UNCHANGED <<chunkVars, searchVars, answerVars>>

\* app.py line 214, ingest.py lines 97-98 and 104: conn.commit()
IngestCommit(p) ==
    /\ ing[p].pc = "commit"
    /\ \/ /\ db_documents' = CommitDocuments(db_documents, tx[p])
          /\ db_chunks' = CommitChunks(db_chunks, tx[p])
          /\ tx' = [tx EXCEPT ![p] = NoTx]
          /\ commits' = Append(commits,
                [n |-> ing[p].req.n, document_id |-> ValueOf(ing[p].document_id),
                 file_checksum |-> ing[p].req.file,
                 title |-> ing[p].req.title, source_path |-> SourcePath(ing[p].req),
                 rows |-> {ValueOf(ing[p].rows)[i] : i \in 1..Len(ValueOf(ing[p].rows))},
                 returned |-> ValueOf(ing[p].returned)])
          /\ ing' = [ing EXCEPT
                ![p].pc = IF ing[p].req.entry = "http" THEN "respond" ELSE "done",
                ![p].resp = IF ing[p].req.entry = "http" THEN @
                            ELSE [status |-> 0, detail |-> "Ingestion complete",
                                  document_id |-> ing[p].document_id,
                                  chunks_inserted |-> Len(ValueOf(ing[p].rows))]]
       \/ /\ ing' = [ing EXCEPT ![p].pc = "except"]
          /\ UNCHANGED <<db_documents, db_chunks, tx, commits>>
    /\ UNCHANGED <<next_id, n_reqs>>
    /\ UNCHANGED <<chunkVars, searchVars, answerVars>>

\* app.py lines 217-224: with a connection, rollback, the HTTP 500 'DB error'
\* and close; without one (`if conn:` fails) nothing is raised and control
\* goes on to line 226.
\* ingest.py lines 99-104: rollback, the exception is raised again, close
IngestExcept(p) ==
    /\ ing[p].pc = "except"
    /\ IF ing[p].conn
       THEN /\ db_documents' = RollbackDocuments(db_documents, tx[p])
            /\ db_chunks' = RollbackChunks(db_chunks, tx[p])
            /\ tx' = [tx EXCEPT ![p] = NoTx]
            /\ ing' = [ing EXCEPT ![p].pc = "done",
                                  ![p].resp = IF ing[p].req.entry = "http"
                                              THEN Failure(500, "DB error")
                                              ELSE Failure(1, "Ingestion failed")]
       ELSE /\ ing' = [ing EXCEPT ![p].pc = "respond"]
            /\ UNCHANGED <<db_documents, db_chunks, tx>>
    /\ UNCHANGED <<next_id, commits, n_reqs>>
    /\ UNCHANGED <<chunkVars, searchVars, answerVars>>

\* app.py line 226: the IngestResponse is built from document_id and rows; a
\* name that was never assigned raises UnboundLocalError, which ends the request
\* with the framework's HTTP 500
IngestRespond(p) ==
    /\ ing[p].pc = "respond"
    /\ ing' = [ing EXCEPT
          ![p].pc = "done",
          ![p].resp = IF ing[p].document_id = Unbound \/ ing[p].rows = Unbound
                      THEN Failure(500, "Internal Server Error")
                      ELSE [status |-> 200, detail |-> "",
                            document_id |-> ing[p].document_id,
                            chunks_inserted |-> Len(ValueOf(ing[p].rows))]]
    /\ UNCHANGED <<db_documents, db_chunks, next_id, tx, commits, n_reqs>>
    /\ UNCHANGED <<chunkVars, searchVars, answerVars>>

\* the request is over; the next one is handled
IngestReturn(p) ==
    /\ ing[p].pc = "done"
    /\ ing' = [ing EXCEPT ![p] = IdleHandler]
    /\ UNCHANGED <<db_documents, db_chunks, next_id, tx, commits, n_reqs>>
    /\ UNCHANGED <<chunkVars, searchVars, answerVars>>

IngestIdle ==
    /\ db_documents = {}
    /\ db_chunks = {}
    /\ next_id = 1
    /\ tx = [p \in Procs |-> NoTx]
    /\ ing = [p \in Procs |-> IdleHandler]
    /\ n_reqs = 0
    /\ commits = <<>>

IngestNext ==
    \E p \in Procs :
        \/ IngestStart(p)
        \/ IngestEmbed(p)
        \/ IngestConnect(p)
        \/ IngestUpsertWait(p)
        \/ IngestUpsert(p)
        \/ IngestPages(p)
        \/ IngestDelete(p)
        \/ IngestInsert(p)
        \/ IngestCommit(p)
        \/ IngestExcept(p)
        \/ IngestRespond(p)
        \/ IngestReturn(p)

IngestInit == ChunkIdle /\ SearchIdle /\ AnswerIdle /\ IngestIdle

SpecIngest == IngestInit /\ [][IngestNext]_vars

AnswerInit == ChunkIdle /\ SearchIdle /\ AnswerIdle /\ IngestIdle

SpecAnswer == AnswerInit /\ [][AnswerNext]_vars

SearchInit == ChunkIdle /\ SearchIdle /\ AnswerIdle /\ IngestIdle

SpecSearch == SearchInit /\ [][SearchNext]_vars

ChunkInit == ChunkIdle /\ SearchIdle /\ AnswerIdle /\ IngestIdle

SpecChunk == ChunkInit /\ [][ChunkNext]_vars


----------------------------------------------------------------------------
(* Properties of the chunker                                               *)

ChunkDone == c_pc = "done"

\* the text handed to text_to_chunks was normalized by clean_text
Normalized == clean_text(text) = text

\* C1: for every text whose trimmed length is at most max_chars, the value
\* returned is a sequence of at most one chunk, that chunk is the trimmed
\* text, and a caller iterating the value gets at most one chunk.
C1_ShortTextOneChunk ==
    (ChunkDone /\ text_size <= max_chars) =>
        /\ c_ret.kind = "list"
        /\ Len(c_ret.val) <= 1
        /\ \A i \in 1..Len(c_ret.val) : c_ret.val[i] = text
        /\ Len(Iterate(c_ret)) <= 1

\* C2: while the loop of text_to_chunks runs, every iteration moves the
\* window forward: the start offset and the window end both strictly
\* increase, for every max_chars >= 1 and overlap >= 0.
C2_WindowAdvances ==
    [][(c_pc = "loop" /\ c_pc' = "loop") => (start' > start /\ end' > end)]_vars

\* first chunk whole, then of each later chunk what follows its first o characters
RECURSIVE Reassemble(_, _)
Reassemble(cs, o) ==
    IF cs = <<>> THEN <<>>
    ELSE IF Len(cs) = 1 THEN cs[1]
    ELSE Reassemble(SubSeq(cs, 1, Len(cs) - 1), o) \o Slice(cs[Len(cs)], o, Len(cs[Len(cs)]))

LongNormalized == ChunkDone /\ Normalized /\ text_size > max_chars /\ overlap < max_chars

\* C3 (as stated): for every normalized text longer than max_chars, with
\* overlap < max_chars, the first chunk followed by every later chunk's
\* suffix after its first `overlap` characters is the original text.
C3_ReassembleAll ==
    LongNormalized => Reassemble(c_ret.val, overlap) = text

\* no window of the text begins or ends with a whitespace character
WindowsUntrimmed ==
    \A k \in 1..Len(windows) :
        LET w == Slice(text, windows[k][1], windows[k][2]) IN strip(w) = w

\* C3 (amended): the same, for the texts none of whose windows begins or
\* ends with whitespace, so that trimming changes no window.
C3_ReassembleUntrimmed ==
    (LongNormalized /\ WindowsUntrimmed) => Reassemble(c_ret.val, overlap) = text

C3_Witness ==
    /\ LongNormalized /\ WindowsUntrimmed
    /\ overlap > 0
    /\ Len(c_ret.val) >= 2
    /\ \E i \in 1..Len(text) : text[i] = " "

\* the windows of the claim: s_0 = 0, e_k = min(s_k + m, L), s_(k+1) = e_k - o,
\* up to the first window with e_k = L
RECURSIVE ClaimedWindows(_, _, _, _)
ClaimedWindows(s, m, o, L) ==
    LET e == Min2(s + m, L)
    IN  IF e = L THEN << <<s, e>> >>
        ELSE << <<s, e>> >> \o ClaimedWindows(e - o, m, o, L)

\* C4: for a text of length L > max_chars and overlap < max_chars the call
\* returns one chunk per claimed window, each the trimmed substring of its
\* window, the last window ending at L; the example text with the default
\* parameters gives exactly the windows [0,900) and [750,L).
C4_WindowSequence ==
    (ChunkDone /\ text_size > max_chars /\ overlap < max_chars) =>
        LET W == ClaimedWindows(0, max_chars, overlap, text_size) IN
        /\ c_ret.kind = "list"
        /\ windows = W
        /\ c_ret.val = [k \in 1..Len(W) |-> strip(Slice(text, W[k][1], W[k][2]))]
        /\ windows[Len(windows)][2] = text_size
        /\ (text_size = ExampleLen /\ max_chars = DefaultMaxChars
              /\ overlap = DefaultOverlap) =>
               /\ Len(c_ret.val) = 2
               /\ windows = << <<0, DefaultMaxChars>>,
                               <<DefaultMaxChars - DefaultOverlap, ExampleLen>> >>

C4_Witness ==
    /\ ChunkDone
    /\ text_size = ExampleLen
    /\ max_chars = DefaultMaxChars
    /\ overlap = DefaultOverlap
    /\ Len(c_ret.val) = 2

\* C5: every chunk emitted, in the loop's list and in what a caller gets by
\* iterating the returned value, has at most max_chars characters.
C5_ChunkWithinMax ==
    /\ \A i \in 1..Len(chunks) : Len(chunks[i]) <= max_chars
    /\ \A i \in 1..Len(Iterate(c_ret)) : Len(Iterate(c_ret)[i]) <= max_chars
    /\ (c_ret.kind = "str" => Len(c_ret.val) <= max_chars)

C5_Witness ==
    /\ ChunkDone
    /\ Len(c_ret.val) >= 2
    /\ c_ret.kind = "list"
    /\ \E i \in 1..Len(c_ret.val) : Len(c_ret.val[i]) = max_chars
    /\ \E i \in 1..Len(c_ret.val) : Len(c_ret.val[i]) < max_chars

----------------------------------------------------------------------------
(* Properties of run_search                                                *)

Searched == s_pc = "searched"

Range(q) == {q[i] : i \in 1..Len(q)}

\* the (document id, page number, chunk index) triple of a row
Triple(r) == <<r.document_id, r.page_number, r.chunk_index>>

\* the highest score stored for a triple
BestScore(t) ==
    SetMax({r.score : r \in {q \in BagToSet(tbl) : Triple(q) = t}})

\* a row passes the request's document filter and score threshold
PassesFilters(r) ==
    /\ (s_req.document_id /= NoDoc => r.document_id = s_req.document_id)
    /\ (s_req.min_score > 0 => r.score >= s_req.min_score)

\* the triples whose highest-scoring row passes the filters
WinningTriples ==
    {t \in {Triple(r) : r \in BagToSet(tbl)} :
        /\ (s_req.document_id /= NoDoc => t[1] = s_req.document_id)
        /\ (s_req.min_score > 0 => BestScore(t) >= s_req.min_score)}

DuplicateExample ==
    (Row(<<"D", 3, 2>>, <<"x">>, 91) :> 1) @@ (Row(<<"D", 3, 2>>, <<"x">>, 93) :> 1)

\* C6: the result holds at most one row per triple, each with the highest
\* score stored for its triple, and threshold and limit count only these
\* per-triple winners: the result has min(top_k, number of triples whose
\* winner passes the filters) rows.  Two rows for (D, 3, 2) scoring 0.91 and
\* 0.93 give exactly one row, with score 0.93.
C6_DedupeBeforeFilter ==
    Searched =>
        /\ \A i, j \in 1..Len(s_rows) : i /= j => Triple(s_rows[i]) /= Triple(s_rows[j])
        /\ \A i \in 1..Len(s_rows) :
              /\ s_rows[i] \in BagToSet(tbl)
              /\ s_rows[i].score = BestScore(Triple(s_rows[i]))
        /\ Len(s_rows) = Min2(s_req.top_k, Cardinality(WinningTriples))
        /\ (tbl = DuplicateExample /\ s_req.document_id \in {NoDoc, "D"}) =>
               /\ Len(s_rows) = 1
               /\ s_rows[1].score = 93

C6_Witness ==
    /\ Searched
    /\ tbl = DuplicateExample
    /\ s_req.min_score = 92
    /\ Len(s_rows) = 1
    /\ s_rows[1].score = 93

C7_OrderedLimitedFiltered ==
    /\ \A i, j \in 1..Len(s_rows) : i < j => s_rows[i].score >= s_rows[j].score
    /\ Len(s_rows) <= s_req.top_k
    /\ \A i \in 1..Len(s_rows) : PassesFilters(s_rows[i])

\* C7 (as stated): the rows returned are in non-increasing score order, at
\* most top_k, pass the threshold (when > 0) and the document filter (when
\* given), and no stored row left out passes the same filters with a score
\* strictly higher than a returned row's.
C7_NoBetterRowLeftOut ==
    Searched =>
        /\ C7_OrderedLimitedFiltered
        /\ \A r \in BagToSet(tbl) \ Range(s_rows) :
              PassesFilters(r) => \A i \in 1..Len(s_rows) : r.score <= s_rows[i].score

\* C7 (amended): the same, for the rows left out whose triple is not in the
\* result (a row left out as the duplicate of a returned triple may score
\* higher than a returned row of another triple).
C7_NoBetterTripleLeftOut ==
    Searched =>
        /\ C7_OrderedLimitedFiltered
        /\ \A r \in BagToSet(tbl) \ Range(s_rows) :
              (PassesFilters(r) /\ Triple(r) \notin {Triple(q) : q \in Range(s_rows)})
                  => \A i \in 1..Len(s_rows) : r.score <= s_rows[i].score

\* a limited, filtered search that leaves out a passing row of another triple
C7_Witness ==
    /\ Searched
    /\ s_req.min_score > 0
    /\ s_req.document_id /= NoDoc
    /\ Len(s_rows) = s_req.top_k
    /\ \E r \in BagToSet(tbl) \ Range(s_rows) :
          /\ PassesFilters(r)
          /\ Triple(r) \notin {Triple(q) : q \in Range(s_rows)}
    /\ \E r \in BagToSet(tbl) : ~PassesFilters(r)

----------------------------------------------------------------------------
(* Properties of /answer                                                   *)

AnswerDone == a_pc = "done"

\* C8: whenever retrieval returned at least one hit and no answer of the
\* generative model was obtained (incomplete environment, or the call
\* failed), the request completes with status 200, a null llm identifier
\* and an answer of the extractive path.
C8_UnavailableFallsBack ==
    (AnswerDone /\ rows /= <<>> /\ answer_obj.model_name = None) =>
        /\ a_resp.status = 200
        /\ a_resp.llm = None
        /\ extractive

\* C9: with zero hits neither llm_answer nor the extractive path is ever
\* entered, and the request ends with the fixed nothing-relevant response,
\* with no bullets and no citations; stored hits scoring only 0.8 and 0.85
\* with min_score = 0.9 end so.
C9_ZeroHitsShortCircuit ==
    /\ (llm_calls > 0 \/ extractive) => rows /= <<>>
    /\ (AnswerDone /\ rows = <<>> /\ a_resp.status = 200) =>
          /\ a_resp.answer = <<"I couldn't find anything relevant.">>
          /\ a_resp.answer_bullets = <<>>
          /\ a_resp.citations = <<>>
          /\ a_resp.llm = None
    /\ (AnswerDone /\ a_resp.status \notin {400, 500} /\ tbl /= EmptyBag
          /\ a_req.min_score = 90 /\ \A r \in BagToSet(tbl) : r.score \in {80, 85}) =>
          /\ rows = <<>>
          /\ a_resp = NothingRelevant

C9_Witness ==
    /\ AnswerDone
    /\ a_req.min_score = 90
    /\ {r.score : r \in BagToSet(tbl)} = {80, 85}
    /\ rows = <<>>
    /\ a_resp = NothingRelevant
    /\ llm_calls = 0
    /\ ~extractive

SelectedSentences == [k \in 1..Len(selected) |-> selected[k].s]

\* C10: in the extractive path with at least one sentence selected, the
\* answer text is the space-join of all selected sentences truncated to 700
\* characters and the bullets are the first min(4, number selected) of them.
C10_AnswerJoinsAllSelected ==
    (AnswerDone /\ extractive /\ selected /= <<>>) =>
        /\ a_resp.answer = Slice(Join(<<" ">>, SelectedSentences), 0, 700)
        /\ a_resp.answer_bullets = Slice(SelectedSentences, 0, Min2(4, Len(selected)))

\* no character of the text is a terminal punctuation mark
LacksTerminalPunctuation(t) == \A i \in 1..Len(t) : t[i] \notin {".", "!", "?"}

\* the response of the fallback: the first 700 characters of the raw chunk
\* text of the top-scoring hit as the answer, and no bullets
FallsBackToTopHit ==
    /\ \A k \in 1..Len(rows) : rows[1].score >= rows[k].score
    /\ a_resp.status = 200
    /\ a_resp.answer = Slice(rows[1].chunk_text, 0, 700)
    /\ a_resp.answer_bullets = <<>>

\* C11 (as stated): in the extractive path, if no sentences survive
\* splitting, as when the text of every hit lacks terminal punctuation, the
\* answer is the first 700 characters of the top-scoring hit's raw chunk text
\* and the bullet list is empty.
C11_NoPunctuationFallsBack ==
    (AnswerDone /\ extractive
        /\ (candidates = <<>>
              \/ \A k \in 1..Len(rows) : LacksTerminalPunctuation(rows[k].chunk_text)))
        => FallsBackToTopHit

\* C11 (amended): in the extractive path, if no sentence survives splitting
\* (every hit considered is empty or whitespace only), the answer is the first
\* 700 characters of the top-scoring hit's raw chunk text and the bullet list
\* is empty.
C11_NoSentenceFallsBack ==
    (AnswerDone /\ extractive /\ candidates = <<>>) =>
        /\ \A k \in 1..Len(rows) : strip(rows[k].chunk_text) = <<>>
        /\ FallsBackToTopHit

C11_Witness ==
    /\ AnswerDone /\ extractive /\ candidates = <<>>
    /\ Len(rows) = 2
    /\ rows[1].score > rows[2].score
    /\ rows[1].chunk_text = <<" ">>
    /\ rows[2].chunk_text = <<>>
    /\ a_resp.answer = <<" ">>
    /\ a_resp.answer_bullets = <<>>

\* the words of a selected sentence, lowercased
SelectedWords(k) == Range(Words(Lower(selected[k].s)))

\* C12: at every step of the greedy selection and in its final result, no two
\* selected sentences with non-empty word sets have a word-set Jaccard
\* similarity of 0.75 or more, and at most 5 sentences are selected.
C12_NoNearDuplicateSelected ==
    /\ \A i, j \in 1..Len(selected) :
          (i /= j /\ SelectedWords(i) /= {} /\ SelectedWords(j) /= {}) =>
              4 * Cardinality(SelectedWords(i) \cap SelectedWords(j))
                  < 3 * Cardinality(SelectedWords(i) \cup SelectedWords(j))
    /\ Len(selected) <= 5

\* five sentences selected with candidates left, one skipped for a similarity
\* of exactly 0.75
C12_Witness ==
    /\ Len(selected) = 5
    /\ cand_i < Len(candidates)
    /\ \E k \in 1..cand_i : \E i \in 1..Len(selected) :
          /\ candidates[k].s \notin {selected[n].s : n \in 1..Len(selected)}
          /\ 4 * Cardinality(WordSet(candidates[k].s) \cap SelectedWords(i))
                = 3 * Cardinality(WordSet(candidates[k].s) \cup SelectedWords(i))

----------------------------------------------------------------------------
(* Properties of the store and of the ingests                              *)

\* the request of handler p is over
IngestDone(p) == ing[p].pc = "done"

\* the request of handler p was committed
Committed(p) == \E k \in 1..Len(commits) : commits[k].n = ing[p].req.n

\* the committed chunks of a document
StoredChunks(id) == {c \in db_chunks : c.document_id = id}

\* C13: an ingest that fails in its write phase is rolled back: the step that
\* handles the failure leaves the committed documents and chunks as they
\* were and nothing of the transaction pending, the store is then what it was
\* when the ingest began (if no other ingest committed meanwhile), and the
\* committed store changes at a successful commit only, so that no delete and
\* no part of the new chunk set is ever visible before.
C13_FailedIngestRolledBack ==
    [][/\ \A p \in Procs :
            (ing[p].pc = "except" /\ ing[p].conn /\ ing'[p].pc = "done") =>
                /\ db_documents' = db_documents
                /\ db_chunks' = db_chunks
                /\ tx'[p] = NoTx
                /\ ~(\E k \in 1..Len(commits') : commits'[k].n = ing[p].req.n)
                /\ (Len(commits) = ing[p].before.ncommits) =>
                       /\ db_documents' = ing[p].before.documents
                       /\ db_chunks' = ing[p].before.chunks
       /\ (db_documents' /= db_documents \/ db_chunks' /= db_chunks) =>
             \E p \in Procs : ing[p].pc = "commit" /\ ing'[p].pc \in {"respond", "done"}
      ]_vars

\* an ingest of a document that had chunks failed after its delete and one
\* insert, and the old chunks and the old title are what the store holds
C13_Witness ==
    \E p \in Procs :
        /\ IngestDone(p)
        /\ ing[p].resp = Failure(500, "DB error")
        /\ ing[p].writes >= 3
        /\ StoredChunks(ValueOf(ing[p].document_id)) /= {}
        /\ db_chunks = ing[p].before.chunks
        /\ db_documents = ing[p].before.documents
        /\ \A c \in db_chunks : c.req /= ing[p].req.n

\* the committed ingests of a document, in commit order
CommitsOf(id) == SelectSeq(commits, LAMBDA e : e.document_id = id)

\* C14: the chunks stored for a document are exactly the rows of its most
\* recent committed delete_and_insert_chunks call (none before its first), so
\* no chunk of an earlier ingest survives and other documents' chunks are
\* untouched; the call returns the number of rows it was given, which is the
\* number of chunk rows its connection then sees for the document.
C14_ChunksOfLastCommit ==
    /\ \A id \in 1..(next_id - 1) :
          StoredChunks(id) = IF CommitsOf(id) = <<>> THEN {}
                             ELSE CommitsOf(id)[Len(CommitsOf(id))].rows
    /\ \A c \in db_chunks : c.document_id \in 1..(next_id - 1)
    /\ \A k \in 1..Len(commits) : commits[k].returned = Cardinality(commits[k].rows)
    /\ \A p \in Procs :
          ing[p].pc = "commit" =>
              LET mine == {c \in VisibleChunks(db_chunks, tx[p]) :
                              c.document_id = ValueOf(ing[p].document_id)}
              IN  /\ mine = {ValueOf(ing[p].rows)[i] : i \in 1..Len(ValueOf(ing[p].rows))}
                  /\ ValueOf(ing[p].returned) = Len(ValueOf(ing[p].rows))
                  /\ ValueOf(ing[p].returned) = Cardinality(mine)

\* a document was ingested twice and holds the chunks of the second ingest
C14_Witness ==
    /\ Len(commits) = 2
    /\ commits[1].document_id = commits[2].document_id
    /\ commits[1].rows /= {}
    /\ commits[2].rows /= {}
    /\ db_chunks = commits[2].rows

\* C15: no two document rows share a checksum; the ingests of one checksum
\* all got the same document id, the document keeps that id and its checksum
\* and carries the title and source path of the last of them; there are as
\* many documents as distinct checksums committed; and the id upsert_document
\* returned to an open transaction is the id of the stored document with that
\* checksum, if there is one.
C15_OneDocumentPerChecksum ==
    /\ \A d, e \in db_documents : d.file_checksum = e.file_checksum => d = e
    /\ \A d, e \in db_documents : d.id = e.id => d = e
    /\ Cardinality(db_documents) =
          Cardinality({commits[k].file_checksum : k \in 1..Len(commits)})
    /\ \A j, k \in 1..Len(commits) :
          (commits[j].file_checksum = commits[k].file_checksum)
              <=> (commits[j].document_id = commits[k].document_id)
    /\ \A k \in 1..Len(commits) :
          (\A j \in (k + 1)..Len(commits) :
               commits[j].file_checksum /= commits[k].file_checksum) =>
              [id |-> commits[k].document_id, title |-> commits[k].title,
               source_path |-> commits[k].source_path,
               file_checksum |-> commits[k].file_checksum] \in db_documents
    /\ \A p \in Procs :
          ing[p].pc \in {"pages", "delete", "insert", "commit"} =>
              \A d \in db_documents :
                  d.file_checksum = ing[p].req.file => d.id = ValueOf(ing[p].document_id)

\* the same bytes were ingested twice: one document, with the second title
C15_Witness ==
    /\ Len(commits) = 2
    /\ commits[1].file_checksum = commits[2].file_checksum
    /\ commits[1].title /= commits[2].title
    /\ Cardinality(db_documents) = 1
    /\ \A d \in db_documents :
          /\ d.id = commits[1].document_id
          /\ d.title = commits[2].title
          /\ d.source_path = commits[2].source_path

\* the input of the request fails validation: an empty file, an unreadable
\* one, or no page with text left after the page filter
InvalidInput(r) ==
    \/ File(r.file).empty
    \/ ~File(r.file).readable
    \/ FileChunkPages[File(r.file)] = <<>>

\* C16: at both entry points, a request whose input fails validation makes no
\* embedding call and no store write, commits nothing, and ends with an error.
C16_InvalidInputRejectedFirst ==
    \A p \in Procs :
        (ing[p].pc /= "idle" /\ InvalidInput(ing[p].req)) =>
            /\ ing[p].embed_calls = 0
            /\ ing[p].writes = 0
            /\ ~Committed(p)
            /\ IngestDone(p) => ing[p].resp.status \notin {0, 200}

\* the two handlers hold requests for the same bytes that ran at the same time
SameBytesConcurrently ==
    /\ \A p \in Procs : ing[p].pc \in {"respond", "done"}
    /\ ing[1].req.file = ing[2].req.file
    /\ ing[1].req.overlaps \/ ing[2].req.overlaps

\* the position in `commits` of the request with number n that was committed
CommitIndex(n) == CHOOSE k \in 1..Len(commits) : commits[k].n = n

\* the rows of the request with number n that was committed
CommittedRows(n) == commits[CommitIndex(n)].rows

\* C17: once two concurrent ingests of the same bytes have finished, the
\* store holds at most one document with that checksum (exactly one if either
\* committed), and if both committed the document's chunks are the rows of
\* one of them, the one that committed last, and none of the other.
C17_ConcurrentSameChecksum ==
    SameBytesConcurrently =>
        LET docs == {d \in db_documents : d.file_checksum = ing[1].req.file}
        IN  /\ Cardinality(docs) <= 1
            /\ (Committed(1) \/ Committed(2)) => Cardinality(docs) = 1
            /\ (Committed(1) /\ Committed(2)) =>
                  LET i == CommitIndex(ing[1].req.n)
                      j == CommitIndex(ing[2].req.n)
                      last == commits[IF i < j THEN j ELSE i]
                      first == commits[IF i < j THEN i ELSE j]
                  IN  /\ \A d \in docs : StoredChunks(d.id) = last.rows
                      /\ \A d \in docs : StoredChunks(d.id) \cap first.rows = {}

\* both committed chunks, and the second had to wait for the first
C17_Witness ==
    /\ SameBytesConcurrently
    /\ Committed(1) /\ Committed(2)
    /\ ing[1].waited \/ ing[2].waited
    /\ CommittedRows(ing[1].req.n) /= {}
    /\ CommittedRows(ing[2].req.n) /= {}
    /\ db_chunks /= {}

\* C18: in /ingest the construction of the response is reached only after
\* upsert, chunk replacement and commit succeeded, with document_id and rows
\* bound, and every other end of the write phase, a failed get_conn included,
\* is the HTTP 500 'DB error'.
C18_WriteFailureIsDbError ==
    \A p \in Procs :
        ing[p].req.entry = "http" =>
            /\ ing[p].pc = "respond" =>
                  /\ Committed(p)
                  /\ ing[p].document_id /= Unbound
                  /\ ing[p].rows /= Unbound
            /\ (IngestDone(p) /\ ing[p].embed_calls > 0 /\ ing[p].resp.status /= 200) =>
                  ing[p].resp \in {Failure(500, "DB error"), Failure(500, "Embedding error")}

====
